---- MODULE Spec2Model ----
(***************************************************************************)
(* Model of the Memcached facade class (tachibana-shin/memcached).         *)
(*                                                                         *)
(* The facade forwards every operation to a memcache-client instance.      *)
(* The model keeps the server's key/value store (cache), and for every     *)
(* caller the frame of the facade call it is in or has last completed:     *)
(* arguments, locals of the async methods, the requests handed to the      *)
(* underlying client, and the value the returned promise resolved to.      *)
(*                                                                         *)
(* JavaScript values are records [t, n, s]; strings are sequences of       *)
(* characters so that key joining and command formatting are computed.     *)
(***************************************************************************)
EXTENDS Integers, Sequences, FiniteSets, TLC

\* ---------------------------------------------------------------- bounds
MaxNum == 1
MaxStrLen == 1
MaxGetsKeys == 2

\* ------------------------------------------------------- JavaScript values
Undefined == [t |-> "undef", n |-> 0, s |-> <<>>]
Num(i) == [t |-> "num", n |-> i, s |-> <<>>]
Str(x) == [t |-> "str", n |-> 0, s |-> x]
Fn(name) == [t |-> "fn", n |-> 0, s |-> <<name>>]
Status(name) == [t |-> "status", n |-> 0, s |-> <<name>>]
Rejected == [t |-> "rejected", n |-> 0, s |-> <<>>]

\* JavaScript truthiness of the values a cache entry can hold
Truthy(v) ==
  CASE v.t = "num" -> v.n # 0
    [] v.t = "str" -> v.s # <<>>
    [] v.t = "undef" -> FALSE
    [] OTHER -> TRUE

\* a ?? b
Nullish(a, b) == IF a = Undefined THEN b ELSE a

RECURSIVE StrsUpTo(_)
StrsUpTo(n) ==
  IF n = 0 THEN {<<>>}
  ELSE LET S == StrsUpTo(n - 1) IN S \cup {Append(x, "x") : x \in S}

\* StoreParams: the values a caller may store (string | number)
StoreValues == {Num(i) : i \in 0..MaxNum} \cup {Str(x) : x \in StrsUpTo(MaxStrLen)}

\* ------------------------------------------------------------------- keys
StrKey(x) == [arr |-> FALSE, s |-> x, parts |-> <<>>]
ArrKey(ps) == [arr |-> TRUE, s |-> <<>>, parts |-> ps]

\* keys the callers use: "a/b", ["a","b"], "constructor"
CallerKeys ==
  { StrKey(<<"a", "/", "b">>), ArrKey(<< <<"a">>, <<"b">> >>),
    StrKey(<<"constructor">>) }

\* key strings handed to gets (which takes plain strings)
KeyStrings == { <<"a", "/", "b">>, <<"constructor">> }

\* Array.prototype.join(sep)
RECURSIVE join(_, _)
join(parts, sep) ==
  IF parts = <<>> THEN <<>>
  ELSE IF Len(parts) = 1 THEN Head(parts)
  ELSE Head(parts) \o sep \o join(Tail(parts), sep)

\* String.prototype.toString()
toString(x) == x

\* variant of resolveKey: key.join() with the default separator
resolveKeyComma(key) ==
  IF key.arr THEN join(key.parts, <<",">>) ELSE toString(key.s)

resolveKey(key) ==
  IF key.arr THEN join(key.parts, <<"/">>) ELSE toString(key.s)

\* ---------------------------------------------------- facade construction
Facades == {"f1", "f2"}

\* constructor argument `scope`
scope(f) == IF f = "f1" THEN <<"s1", ":">> ELSE <<"s2", ":">>

\* constructor argument `lifeTime`: own properties of the table object
lifeTime(f) ==
  IF f = "f1" THEN (<<"a", "/", "b">> :> 30) ELSE << >>

\* property names every object literal inherits from Object.prototype
ObjectPrototypeNames == { <<"constructor">> }

\* obj[name] on an object literal: own property, else the inherited member
PropertyGet(obj, name) ==
  IF name \in DOMAIN obj THEN Num(obj[name])
  ELSE IF name \in ObjectPrototypeNames THEN Fn(name[1])
  ELSE Undefined

\* default parameter: lifetime = this.lifeTime[this.resolveKey(key)] ?? 0
DefaultLifetime(f, key) ==
  Nullish(PropertyGet(lifeTime(f), resolveKey(key)), Num(0))

\* a default parameter applies when the argument is undefined
LifetimeParam(f, key, lt) ==
  IF lt = Undefined THEN DefaultLifetime(f, key) ELSE lt

\* lifetime arguments a caller passes: omitted, 60
LifetimeArgs == {Undefined, Num(60)}

\* ------------------------------------------------- the underlying client
\* requests handed to the MemcacheClient
Req(cmd, k, v, lt, nr) ==
  [cmd |-> cmd, key |-> k, keys |-> <<>>, value |-> v, lifetime |-> lt,
   noreply |-> nr, text |-> <<>>]

\* cache is a function from the stored key strings to their values
Lookup(c, k) == IF k \in DOMAIN c THEN c[k] ELSE Undefined
StoreAt(c, k, v) == [x \in DOMAIN c \cup {k} |-> IF x = k THEN v ELSE c[x]]
RemoveAt(c, k) == [x \in DOMAIN c \ {k} |-> c[x]]

\* server side of set / add / replace / append / prepend / delete
ServerSet(c, k, v) == StoreAt(c, k, v)
ServerAdd(c, k, v) == IF k \in DOMAIN c THEN c ELSE StoreAt(c, k, v)
ServerReplace(c, k, v) == IF k \in DOMAIN c THEN StoreAt(c, k, v) ELSE c
ServerAppend(c, k, v) ==
  IF k \in DOMAIN c THEN StoreAt(c, k, Str(c[k].s \o v.s)) ELSE c
ServerPrepend(c, k, v) ==
  IF k \in DOMAIN c THEN StoreAt(c, k, Str(v.s \o c[k].s)) ELSE c
ServerDelete(c, k) == RemoveAt(c, k)

\* reply of a store command that needs (or forbids) an existing entry
StoreReply(stored) == IF stored THEN Status("STORED") ELSE Status("NOT_STORED")

\* append/prepend concatenate bytes: the model applies them to strings only
CanConcat(c, k, v) ==
  k \in DOMAIN c =>
    /\ c[k].t = "str"
    /\ v.t = "str"
    /\ Len(c[k].s) + Len(v.s) <= MaxStrLen

\* server side of incr / decr: absent -> NOT_FOUND, non-numeric -> error
ServerIncr(c, k, d) ==
  IF k \in DOMAIN c /\ c[k].t = "num" THEN StoreAt(c, k, Num(c[k].n + d)) ELSE c
ServerDecr(c, k, d) ==
  IF k \in DOMAIN c /\ c[k].t = "num"
  THEN StoreAt(c, k, Num(IF c[k].n > d THEN c[k].n - d ELSE 0)) ELSE c
CounterReply(c, c2, k) ==
  IF k \notin DOMAIN c THEN Status("NOT_FOUND")
  ELSE IF c[k].t # "num" THEN Status("CLIENT_ERROR")
  ELSE c2[k]
CanIncr(c, k, d) == (k \in DOMAIN c /\ c[k].t = "num") => c[k].n + d <= MaxNum

\* command text: `flush_all ${delay}` (template literal)
TemplateString(v) == IF v = Undefined THEN <<"undefined">> ELSE v.s
FlushText(delay) == <<"flush_all", " ">> \o TemplateString(delay)

\* the server splits a command line into tokens at spaces
RECURSIVE Tokenize(_, _)
Tokenize(text, cur) ==
  IF text = <<>> THEN (IF cur = <<>> THEN <<>> ELSE <<cur>>)
  ELSE IF Head(text) = " "
       THEN (IF cur = <<>> THEN <<>> ELSE <<cur>>) \o Tokenize(Tail(text), <<>>)
       ELSE Tokenize(Tail(text), Append(cur, Head(text)))
Tokens(text) == Tokenize(text, <<>>)

Digits == {"0", "5"}
IsNumber(tok) == tok # <<>> /\ \A i \in 1..Len(tok) : tok[i] \in Digits
IsZero(tok) == \A i \in 1..Len(tok) : tok[i] = "0"

\* server side of a raw command line: flush_all [delay], anything else
ServerCmd(c, text) ==
  LET toks == Tokens(text) IN
  IF toks = <<>> \/ toks[1] # <<"flush_all">> THEN c
  ELSE IF Len(toks) = 1 THEN << >>
  ELSE IF IsNumber(toks[2]) /\ IsZero(toks[2]) THEN << >>
  ELSE c
CmdReply(text) ==
  LET toks == Tokens(text) IN
  IF toks = <<>> THEN Status("ERROR")
  ELSE IF toks[1] # <<"flush_all">> THEN Status("VERSION")
  ELSE IF Len(toks) = 1 \/ IsNumber(toks[2]) THEN Status("OK")
  ELSE Status("CLIENT_ERROR")

\* delay arguments a caller passes to flush: omitted, "0", "5"
FlushDelays == {Undefined, Str(<<"0">>), Str(<<"5">>)}

\* raw commands a caller passes to cmd
RawCommands == { <<"version">>, <<"flush_all">> }

\* multi-get: the client answers with the found entries, in any order
Orderings(S) ==
  {q \in [1..Cardinality(S) -> S] : \A i, j \in 1..Cardinality(S) : q[i] = q[j] => i = j}
FoundKeys(c, keys) == {keys[i] : i \in 1..Len(keys)} \cap DOMAIN c
Responses(c, keys) ==
  {[i \in 1..Len(q) |-> [key |-> q[i], value |-> c[q[i]]]] : q \in Orderings(FoundKeys(c, keys))}

\* data[key]?.value on the client's result object
DataValue(resp, key) ==
  IF \E i \in 1..Len(resp) : resp[i].key = key
  THEN (CHOOSE e \in {resp[i] : i \in 1..Len(resp)} : e.key = key).value
  ELSE Undefined

\* variant of GetsResult: results taken by response position
GetsResultByPosition(resp, keys) ==
  [i \in 1..Len(keys) |-> IF i <= Len(resp) THEN resp[i].value ELSE Undefined]

\* keys.map((key) => data[key]?.value)
GetsResult(resp, keys) == [i \in 1..Len(keys) |-> DataValue(resp, keys[i])]

RECURSIVE SeqsUpTo(_, _)
SeqsUpTo(S, n) ==
  IF n = 0 THEN {<<>>}
  ELSE LET T == SeqsUpTo(S, n - 1) IN T \cup {Append(q, x) : q \in T, x \in S}
GetsArgs == SeqsUpTo(KeyStrings, MaxGetsKeys)

\* amount arguments a caller passes to increment / decrement: omitted, 1
AmountArgs == {Undefined, Num(1)}
\* default parameter: value: number = 1
AmountParam(a) == IF a = Undefined THEN 1 ELSE a.n

\* variant of ForeverLifetime: the default-lifetime lookup of put
ForeverLifetimeDefault(f, key) == DefaultLifetime(f, key)

\* lifetime forever passes to the client: { lifetime: 0 }
ForeverLifetime(f, key) == Num(0)

\* variant of PullResult: val || def
PullResultOr(val, def) == IF Truthy(val) THEN val ELSE def

\* the value pull returns: val ?? def
PullResult(val, def) == Nullish(val, def)

\* variant of Hit: a presence test, v !== undefined
HitDefined(v) == v # Undefined

\* if (inCache) / if (val)
Hit(v) == Truthy(v)

VARIABLES cache, facade, pc, call

vars == <<cache, facade, pc, call>>

Callers == {"c1"}

EmptyFrame ==
  [op |-> "none", fac |-> "f1", key |-> StrKey(<<>>), value |-> Undefined,
   ltArg |-> Undefined, lifetime |-> Undefined, def |-> Undefined,
   got |-> Undefined, fnCalls |-> 0, reqs |-> <<>>, ret |-> Undefined,
   keys |-> <<>>, resp |-> <<>>, rets |-> <<>>]

Frame(o, f, k) == [EmptyFrame EXCEPT !.op = o, !.fac = f, !.key = k]

\* frame of a completed single-request store operation
StoreFrame(o, f, k, v, lt, cmd, reply) ==
  [Frame(o, f, k) EXCEPT
     !.value = v, !.ltArg = lt, !.lifetime = LifetimeParam(f, k, lt),
     !.reqs = <<Req(cmd, resolveKey(k), v, LifetimeParam(f, k, lt), FALSE)>>,
     !.ret = reply]

\* a fresh server, and for every caller the facade it constructed
Init ==
  /\ cache = << >>
  /\ facade \in [Callers -> Facades]
  /\ pc = [p \in Callers |-> "idle"]
  /\ call = [p \in Callers |-> EmptyFrame]

\* get(key): client.get(resolveKey(key)).then(res => res?.value)
Get(p, f, k) ==
  /\ pc[p] = "idle"
  /\ call' = [call EXCEPT ![p] =
       [Frame("get", f, k) EXCEPT
          !.reqs = <<Req("get", resolveKey(k), Undefined, Undefined, FALSE)>>,
          !.ret = Lookup(cache, resolveKey(k))]]
  /\ UNCHANGED <<cache, facade, pc>>

\* put(key, value, lifetime): client.set(resolveKey(key), value, {lifetime})
Put(p, f, k, v, lt) ==
  /\ pc[p] = "idle"
  /\ cache' = ServerSet(cache, resolveKey(k), v)
  /\ call' = [call EXCEPT ![p] =
       StoreFrame("put", f, k, v, lt, "set", Status("STORED"))]
  /\ UNCHANGED <<facade, pc>>

\* forever(key, value): client.set(resolveKey(key), value, {lifetime: 0})
Forever(p, f, k, v) ==
  /\ pc[p] = "idle"
  /\ cache' = ServerSet(cache, resolveKey(k), v)
  /\ call' = [call EXCEPT ![p] =
       [Frame("forever", f, k) EXCEPT
          !.value = v, !.lifetime = ForeverLifetime(f, k),
          !.reqs = <<Req("set", resolveKey(k), v, ForeverLifetime(f, k), FALSE)>>,
          !.ret = Status("STORED")]]
  /\ UNCHANGED <<facade, pc>>

\* delete(key): client.delete(resolveKey(key))
DeleteFrame(o, f, k) ==
  [Frame(o, f, k) EXCEPT
     !.reqs = <<Req("delete", resolveKey(k), Undefined, Undefined, FALSE)>>,
     !.ret = IF resolveKey(k) \in DOMAIN cache
             THEN Status("DELETED") ELSE Status("NOT_FOUND")]

Delete(p, f, k) ==
  /\ pc[p] = "idle"
  /\ cache' = ServerDelete(cache, resolveKey(k))
  /\ call' = [call EXCEPT ![p] = DeleteFrame("delete", f, k)]
  /\ UNCHANGED <<facade, pc>>

\* forget(key): this.delete(key)
Forget(p, f, k) ==
  /\ pc[p] = "idle"
  /\ cache' = ServerDelete(cache, resolveKey(k))
  /\ call' = [call EXCEPT ![p] = DeleteFrame("forget", f, k)]
  /\ UNCHANGED <<facade, pc>>

\* add(key, value, lifetime): client.add(...)
Add(p, f, k, v, lt) ==
  /\ pc[p] = "idle"
  /\ cache' = ServerAdd(cache, resolveKey(k), v)
  /\ call' = [call EXCEPT ![p] =
       StoreFrame("add", f, k, v, lt, "add",
                  StoreReply(resolveKey(k) \notin DOMAIN cache))]
  /\ UNCHANGED <<facade, pc>>

\* replace(key, value, lifetime): client.replace(...)
Replace(p, f, k, v, lt) ==
  /\ pc[p] = "idle"
  /\ cache' = ServerReplace(cache, resolveKey(k), v)
  /\ call' = [call EXCEPT ![p] =
       StoreFrame("replace", f, k, v, lt, "replace",
                  StoreReply(resolveKey(k) \in DOMAIN cache))]
  /\ UNCHANGED <<facade, pc>>

\* append(key, value, lifetime): client.append(...)
AppendOp(p, f, k, v, lt) ==
  /\ pc[p] = "idle"
  /\ CanConcat(cache, resolveKey(k), v)
  /\ cache' = ServerAppend(cache, resolveKey(k), v)
  /\ call' = [call EXCEPT ![p] =
       StoreFrame("append", f, k, v, lt, "append",
                  StoreReply(resolveKey(k) \in DOMAIN cache))]
  /\ UNCHANGED <<facade, pc>>

\* prepend(key, value, lifetime): client.prepend(...)
Prepend(p, f, k, v, lt) ==
  /\ pc[p] = "idle"
  /\ CanConcat(cache, resolveKey(k), v)
  /\ cache' = ServerPrepend(cache, resolveKey(k), v)
  /\ call' = [call EXCEPT ![p] =
       StoreFrame("prepend", f, k, v, lt, "prepend",
                  StoreReply(resolveKey(k) \in DOMAIN cache))]
  /\ UNCHANGED <<facade, pc>>

\* increment(key, value = 1, lifetime): client.incr(...)
Increment(p, f, k, a, lt) ==
  /\ pc[p] = "idle"
  /\ CanIncr(cache, resolveKey(k), AmountParam(a))
  /\ cache' = ServerIncr(cache, resolveKey(k), AmountParam(a))
  /\ call' = [call EXCEPT ![p] =
       StoreFrame("increment", f, k, Num(AmountParam(a)), lt, "incr",
                  CounterReply(cache, cache', resolveKey(k)))]
  /\ UNCHANGED <<facade, pc>>

\* decrement(key, value = 1, lifetime): client.decr(...)
Decrement(p, f, k, a, lt) ==
  /\ pc[p] = "idle"
  /\ cache' = ServerDecr(cache, resolveKey(k), AmountParam(a))
  /\ call' = [call EXCEPT ![p] =
       StoreFrame("decrement", f, k, Num(AmountParam(a)), lt, "decr",
                  CounterReply(cache, cache', resolveKey(k)))]
  /\ UNCHANGED <<facade, pc>>

\* incLifetime(key, lifetime): client.touch(resolveKey(key), lifetime)
IncLifetime(p, f, k, lt) ==
  /\ pc[p] = "idle"
  /\ call' = [call EXCEPT ![p] =
       StoreFrame("incLifetime", f, k, Undefined, lt, "touch",
                  IF resolveKey(k) \in DOMAIN cache
                  THEN Status("TOUCHED") ELSE Status("NOT_FOUND"))]
  /\ UNCHANGED <<cache, facade, pc>>

\* flush(delay, noReply): client.cmd(`flush_all ${delay}`, {noreply: noReply})
Flush(p, f, delay, noReply) ==
  /\ pc[p] = "idle"
  /\ cache' = ServerCmd(cache, FlushText(delay))
  /\ call' = [call EXCEPT ![p] =
       [Frame("flush", f, StrKey(<<>>)) EXCEPT
          !.value = delay,
          !.reqs = <<[Req("cmd", <<>>, Undefined, Undefined, noReply)
                        EXCEPT !.text = FlushText(delay)]>>,
          !.ret = CmdReply(FlushText(delay))]]
  /\ UNCHANGED <<facade, pc>>

\* cmd(command): client.cmd(command)
Cmd(p, f, text) ==
  /\ pc[p] = "idle"
  /\ cache' = ServerCmd(cache, text)
  /\ call' = [call EXCEPT ![p] =
       [Frame("cmd", f, StrKey(<<>>)) EXCEPT
          !.reqs = <<[Req("cmd", <<>>, Undefined, Undefined, FALSE)
                        EXCEPT !.text = text]>>,
          !.ret = CmdReply(text)]]
  /\ UNCHANGED <<facade, pc>>

\* gets(keys): client.gets(keys).then(data => keys.map(key => data[key]?.value))
Gets(p, f, keys, resp) ==
  /\ pc[p] = "idle"
  /\ resp \in Responses(cache, keys)
  /\ call' = [call EXCEPT ![p] =
       [Frame("gets", f, StrKey(<<>>)) EXCEPT
          !.keys = keys, !.resp = resp,
          !.reqs = <<[Req("gets", <<>>, Undefined, Undefined, FALSE)
                        EXCEPT !.keys = keys]>>,
          !.rets = GetsResult(resp, keys)]]
  /\ UNCHANGED <<cache, facade, pc>>

\* remember(key, lifetime, fnGet): const inCache = await this.get(key)
Remember(p, f, k, lt) ==
  /\ pc[p] = "idle"
  /\ pc' = [pc EXCEPT ![p] = "remember_got"]
  /\ call' = [call EXCEPT ![p] =
       [Frame("remember", f, k) EXCEPT
          !.ltArg = lt, !.lifetime = LifetimeParam(f, k, lt),
          !.reqs = <<Req("get", resolveKey(k), Undefined, Undefined, FALSE)>>,
          !.got = Lookup(cache, resolveKey(k))]]
  /\ UNCHANGED <<cache, facade>>

\* rememberForever(key, fnGet): this.remember(key, 0, fnGet)
RememberForever(p, f, k) ==
  /\ pc[p] = "idle"
  /\ pc' = [pc EXCEPT ![p] = "remember_got"]
  /\ call' = [call EXCEPT ![p] =
       [Frame("rememberForever", f, k) EXCEPT
          !.ltArg = Num(0), !.lifetime = LifetimeParam(f, k, Num(0)),
          !.reqs = <<Req("get", resolveKey(k), Undefined, Undefined, FALSE)>>,
          !.got = Lookup(cache, resolveKey(k))]]
  /\ UNCHANGED <<cache, facade>>

\* if (inCache) return inCache
RememberHit(p) ==
  /\ pc[p] = "remember_got"
  /\ Hit(call[p].got)
  /\ pc' = [pc EXCEPT ![p] = "idle"]
  /\ call' = [call EXCEPT ![p].ret = call[p].got]
  /\ UNCHANGED <<cache, facade>>

\* const value = await fnGet()   (fnGet is invoked)
RememberMiss(p) ==
  /\ pc[p] = "remember_got"
  /\ ~Hit(call[p].got)
  /\ pc' = [pc EXCEPT ![p] = "remember_fn"]
  /\ call' = [call EXCEPT ![p].fnCalls = call[p].fnCalls + 1]
  /\ UNCHANGED <<cache, facade>>

\* fnGet resolved: await this.put(key, value, lifetime, {noreply: true}); return value
RememberStore(p, v) ==
  /\ pc[p] = "remember_fn"
  /\ pc' = [pc EXCEPT ![p] = "idle"]
  /\ cache' = ServerSet(cache, resolveKey(call[p].key), v)
  /\ call' = [call EXCEPT
       ![p].value = v,
       ![p].reqs = Append(call[p].reqs,
          Req("set", resolveKey(call[p].key), v,
              LifetimeParam(call[p].fac, call[p].key, call[p].lifetime), TRUE)),
       ![p].ret = v]
  /\ UNCHANGED facade

\* fnGet rejected: remember rejects, nothing is stored
RememberReject(p) ==
  /\ pc[p] = "remember_fn"
  /\ pc' = [pc EXCEPT ![p] = "idle"]
  /\ call' = [call EXCEPT ![p].ret = Rejected]
  /\ UNCHANGED <<cache, facade>>

\* variant of Pull: an atomic take, the entry is removed by the read itself
PullAtomic(p, f, k, d) ==
  /\ pc[p] = "idle"
  /\ pc' = [pc EXCEPT ![p] = "pull_got"]
  /\ cache' = ServerDelete(cache, resolveKey(k))
  /\ call' = [call EXCEPT ![p] =
       [Frame("pull", f, k) EXCEPT
          !.def = d,
          !.reqs = <<Req("get", resolveKey(k), Undefined, Undefined, FALSE)>>,
          !.got = Lookup(cache, resolveKey(k))]]
  /\ UNCHANGED facade

\* pull(key, def): const val = await this.get(key)
Pull(p, f, k, d) ==
  /\ pc[p] = "idle"
  /\ pc' = [pc EXCEPT ![p] = "pull_got"]
  /\ call' = [call EXCEPT ![p] =
       [Frame("pull", f, k) EXCEPT
          !.def = d,
          !.reqs = <<Req("get", resolveKey(k), Undefined, Undefined, FALSE)>>,
          !.got = Lookup(cache, resolveKey(k))]]
  /\ UNCHANGED <<cache, facade>>

\* if (val) { await this.delete(key) }; return val ?? def
PullDelete(p) ==
  /\ pc[p] = "pull_got"
  /\ Hit(call[p].got)
  /\ pc' = [pc EXCEPT ![p] = "idle"]
  /\ cache' = ServerDelete(cache, resolveKey(call[p].key))
  /\ call' = [call EXCEPT
       ![p].reqs = Append(call[p].reqs,
          Req("delete", resolveKey(call[p].key), Undefined, Undefined, FALSE)),
       ![p].ret = PullResult(call[p].got, call[p].def)]
  /\ UNCHANGED facade

\* val is falsy: return val ?? def
PullSkip(p) ==
  /\ pc[p] = "pull_got"
  /\ ~Hit(call[p].got)
  /\ pc' = [pc EXCEPT ![p] = "idle"]
  /\ call' = [call EXCEPT ![p].ret = PullResult(call[p].got, call[p].def)]
  /\ UNCHANGED <<cache, facade>>

\* default values a caller passes to pull: omitted, or a storable value
DefArgs == {Undefined, Num(0), Str(<<"x">>)}

Next ==
  \E p \in Callers :
     \/ \E f \in {facade[p]}, k \in CallerKeys :
          \/ Get(p, f, k)
          \/ Delete(p, f, k)
          \/ Forget(p, f, k)
          \/ RememberForever(p, f, k)
          \/ \E v \in StoreValues : Forever(p, f, k, v)
          \/ \E d \in DefArgs : Pull(p, f, k, d)
          \/ \E lt \in LifetimeArgs :
               \/ Remember(p, f, k, lt)
               \/ IncLifetime(p, f, k, lt)
               \/ \E v \in StoreValues :
                    \/ Put(p, f, k, v, lt)
                    \/ Add(p, f, k, v, lt)
                    \/ Replace(p, f, k, v, lt)
                    \/ AppendOp(p, f, k, v, lt)
                    \/ Prepend(p, f, k, v, lt)
               \/ \E a \in AmountArgs :
                    \/ Increment(p, f, k, a, lt)
                    \/ Decrement(p, f, k, a, lt)
     \/ \E f \in {facade[p]} :
          \/ \E delay \in FlushDelays, noReply \in BOOLEAN : Flush(p, f, delay, noReply)
          \/ \E text \in RawCommands : Cmd(p, f, text)
          \/ \E keys \in GetsArgs : \E resp \in Responses(cache, keys) : Gets(p, f, keys, resp)
     \/ RememberHit(p)
     \/ RememberMiss(p)
     \/ \E v \in StoreValues : RememberStore(p, v)
     \/ RememberReject(p)
     \/ PullDelete(p)
     \/ PullSkip(p)

Spec == Init /\ [][Next]_vars

\* ------------------------------------------- concurrent callers of pull
\* two callers whose async calls interleave at their await points
ConcCallers == {"c1", "c2"}

InitConc ==
  /\ cache = << >>
  /\ facade \in [ConcCallers -> Facades]
  /\ pc = [p \in ConcCallers |-> "idle"]
  /\ call = [p \in ConcCallers |-> EmptyFrame]

\* the single writer: a put made before any other call
FirstPut(p, k, v, lt) ==
  /\ \A q \in ConcCallers : call[q].op = "none"
  /\ Put(p, facade[p], k, v, lt)

NextConc ==
  \E p \in ConcCallers :
     \/ \E k \in CallerKeys, v \in StoreValues, lt \in LifetimeArgs :
          FirstPut(p, k, v, lt)
     \/ \E k \in CallerKeys, d \in DefArgs : Pull(p, facade[p], k, d)
     \/ PullDelete(p)
     \/ PullSkip(p)

SpecConc == InitConc /\ [][NextConc]_vars

\* ------------------------------------------------------------ properties
Done(p, o) == pc[p] = "idle" /\ call[p].op = o
ReqsOf(p, cmds) ==
  {call[p].reqs[i] : i \in {j \in 1..Len(call[p].reqs) : call[p].reqs[j].cmd \in cmds}}
KeyOf(p) == resolveKey(call[p].key)
Falsy(v) == v # Undefined /\ ~Truthy(v)
IsPrefix(pre, x) == Len(pre) <= Len(x) /\ SubSeq(x, 1, Len(pre)) = pre
\* the key string the documentation gives a key: array elements joined by "/"
SlashJoined(key) == IF key.arr THEN join(key.parts, <<"/">>) ELSE key.s

\* C1: remember is get-or-compute-and-store: a key found in the cache is
\* returned without invoking fnGet and without a store; only a key that is
\* not found makes it invoke fnGet once, store the result and return it.
C1_RememberGetOrCompute ==
  \A p \in Callers :
    /\ (pc[p] = "remember_got" /\ call[p].op = "remember") =>
          call[p].got = Lookup(cache, KeyOf(p))
    /\ Done(p, "remember") =>
          IF call[p].got # Undefined
          THEN /\ call[p].ret = call[p].got
               /\ call[p].fnCalls = 0
               /\ ReqsOf(p, {"set"}) = {}
          ELSE /\ call[p].fnCalls = 1
               /\ call[p].ret # Rejected =>
                    /\ \E r \in ReqsOf(p, {"set"}) :
                         r.key = KeyOf(p) /\ r.value = call[p].ret
                    /\ Lookup(cache, KeyOf(p)) = call[p].ret

\* C2: pull is get-then-delete: for a key present when pull reads it, pull
\* returns the stored value and the key is absent once pull has completed.
C2_PullGetThenDelete ==
  \A p \in Callers :
    /\ pc[p] = "pull_got" => call[p].got = Lookup(cache, KeyOf(p))
    /\ (Done(p, "pull") /\ call[p].got # Undefined) =>
          /\ call[p].ret = call[p].got
          /\ KeyOf(p) \notin DOMAIN cache
          /\ Lookup(cache, KeyOf(p)) = Undefined

\* C3: pull(key, def) returns def exactly when the key is not found (or the
\* stored value is def itself); when the key is not found it issues no
\* delete request and leaves the cache unchanged.
C3_PullDefault ==
  [][\A p \in Callers :
       /\ (pc[p] = "idle" /\ pc'[p] = "pull_got") =>
             (call'[p].got = Undefined <=> resolveKey(call'[p].key) \notin DOMAIN cache)
       /\ (pc[p] = "pull_got" /\ pc'[p] = "idle") =>
             /\ (call'[p].ret = call[p].def) <=>
                   (call[p].got = Undefined \/ call[p].got = call[p].def)
             /\ call[p].got = Undefined =>
                   /\ call'[p].ret = call[p].def
                   /\ cache' = cache
                   /\ \A i \in 1..Len(call'[p].reqs) : call'[p].reqs[i].cmd # "delete"
    ]_vars

\* pull found nothing and handed back the caller's default
C3_Witness ==
  \E p \in Callers :
    /\ Done(p, "pull")
    /\ call[p].got = Undefined
    /\ call[p].def = Str(<<"x">>)
    /\ call[p].ret = Str(<<"x">>)
    /\ cache # << >>

LifetimeOps ==
  {"put", "add", "replace", "append", "prepend", "increment", "decrement",
   "remember", "incLifetime"}
LifetimeCmds ==
  {"set", "add", "replace", "append", "prepend", "incr", "decr", "touch"}
TableLifetime(f, k) ==
  IF k \in DOMAIN lifeTime(f) THEN Num(lifeTime(f)[k]) ELSE Num(0)
C5_DefaultLifetime ==
  \A p \in Callers :
    call[p].op \in LifetimeOps =>
      \A r \in ReqsOf(p, LifetimeCmds) :
        r.lifetime = IF call[p].ltArg = Undefined
                     THEN TableLifetime(call[p].fac, KeyOf(p))
                     ELSE call[p].ltArg

\* C6: forever and rememberForever store with lifetime 0 for every key,
\* also for keys with a non-zero entry in the default lifetime table.
C6_ForeverLifetimeZero ==
  \A p \in Callers :
    call[p].op \in {"forever", "rememberForever"} =>
      \A r \in ReqsOf(p, {"set"}) : r.lifetime = Num(0)

\* forever stored a key whose table entry is 30 with lifetime 0
C6_Witness ==
  \E p \in Callers :
    /\ Done(p, "forever")
    /\ TableLifetime(call[p].fac, KeyOf(p)) = Num(30)
    /\ \E r \in ReqsOf(p, {"set"}) : r.key = KeyOf(p) /\ r.lifetime = Num(0)
    /\ KeyOf(p) \in DOMAIN cache

\* C7: every key sent to the underlying client carries the facade's scope
\* prefix, so facades with different scopes never touch the same entry.
KeyedCmds ==
  {"get", "set", "delete", "add", "replace", "append", "prepend", "incr",
   "decr", "touch"}
C7_ScopePrefix ==
  \A p \in Callers :
    \A r \in ReqsOf(p, KeyedCmds) : IsPrefix(scope(call[p].fac), r.key)

\* C8: after put(k, v), with nothing in between, get(k2) returns v for every
\* k2 that names the same key string as k, array keys being joined by "/".
C8_PutGetRoundTrip ==
  [][\A p \in Callers :
       (/\ call'[p].op = "put"
        /\ Put(p, call'[p].fac, call'[p].key, call'[p].value, call'[p].ltArg)) =>
         \A k2 \in CallerKeys :
           SlashJoined(k2) = SlashJoined(call'[p].key) =>
             Lookup(cache', resolveKey(k2)) = call'[p].value
    ]_vars

\* put(["a","b"], "x") has acted and the entry is readable as "a/b"
C8_Witness ==
  \E p \in Callers :
    /\ Done(p, "put")
    /\ call[p].key = ArrKey(<< <<"a">>, <<"b">> >>)
    /\ call[p].value = Str(<<"x">>)
    /\ Lookup(cache, resolveKey(StrKey(<<"a", "/", "b">>))) = Str(<<"x">>)

\* C9: flush() with the delay omitted sends flush_all with no delay token and
\* flushes at once; a delay token appears only when the caller supplies one.
C9_FlushNoDelayToken ==
  \A p \in Callers :
    Done(p, "flush") =>
      \A r \in ReqsOf(p, {"cmd"}) :
        /\ call[p].value = Undefined =>
              (Len(Tokens(r.text)) = 1 /\ cache = << >>)
        /\ Len(Tokens(r.text)) > 1 =>
              (call[p].value # Undefined /\ Tokens(r.text)[2] = call[p].value.s)

\* C10: gets(keys) returns one element per requested key, element i being
\* the value stored under keys[i] or undefined, whatever the order in which
\* the client returned the found entries.
C10_GetsByKey ==
  \A p \in Callers :
    Done(p, "gets") =>
      /\ Len(call[p].rets) = Len(call[p].keys)
      /\ \A i \in 1..Len(call[p].keys) :
           call[p].rets[i] = Lookup(cache, call[p].keys[i])

\* the client returned two entries with different values in reverse order
C10_Witness ==
  \E p \in Callers :
    /\ Done(p, "gets")
    /\ Len(call[p].keys) = 2
    /\ Len(call[p].resp) = 2
    /\ call[p].resp[1].key = call[p].keys[2]
    /\ call[p].resp[2].key = call[p].keys[1]
    /\ call[p].resp[1].value # call[p].resp[2].value

\* C11: pull is not an atomic take. Its get leaves the entry in the cache
\* for any other caller to read, and a pull that read a truthy value returns
\* it whatever has happened to the entry since; so two concurrent pulls of
\* one stored value can both return it.
C11_PullNotAtomic ==
  [][\A p \in ConcCallers :
       /\ (pc[p] = "idle" /\ pc'[p] = "pull_got") =>
             /\ cache' = cache
             /\ call'[p].got = Lookup(cache, resolveKey(call'[p].key))
       /\ (pc[p] = "pull_got" /\ pc'[p] = "idle" /\ Truthy(call[p].got)) =>
             /\ call'[p].ret = call[p].got
             /\ resolveKey(call[p].key) \notin DOMAIN cache'
    ]_vars

\* one value was stored once; both callers' pulls read it and returned it
C11_Witness ==
  /\ \A p \in ConcCallers :
        /\ pc[p] = "idle"
        /\ call[p].op = "pull"
        /\ call[p].def = Undefined
        /\ call[p].got = Str(<<"x">>)
        /\ call[p].ret = Str(<<"x">>)
        /\ \E i \in 1..Len(call[p].reqs) : call[p].reqs[i].cmd = "delete"
  /\ resolveKey(call["c1"].key) = resolveKey(call["c2"].key)

====
